---- MODULE Spec2Model ----
(***************************************************************************)
(* A model of sn_dbc: the denomination-aware Amount algebra                *)
(* (src/src/amount.rs), the mint node's reissue protocol as driven by      *)
(* benches/reissue.rs, and the client-side TransactionBuilder and          *)
(* DbcBuilder (src/src/builder.rs).                                        *)
(*                                                                         *)
(* rug::Integer values are modelled as arbitrary-precision decimal digit   *)
(* sequences (most significant digit first, no leading zero, zero = <<0>>) *)
(* so that no intermediate count is ever truncated by the model.           *)
(***************************************************************************)
EXTENDS Integers, Sequences, FiniteSets, TLC

VARIABLES
    a,          \* first operand of the Amount operation under test
    b,          \* second operand
    op,         \* which Amount operation has been applied ("none" before)
    res,        \* the value that operation returned
    items,      \* the Amounts yielded by the iterator given to checked_sum
    spendbook,  \* the mint node's spend-book: the set of spent input names
    snapshot,   \* the spend-book copy held by the caller (snapshot_spendbook)
    lock,       \* the reissue call inside the critical section, or NoCall
    pc,         \* position of each reissue call
    req,        \* the request of each reissue call
    result,     \* what each reissue call returned
    recorded,   \* history: the names in the spend-book that each call wrote
    resets,     \* number of reset_spendbook calls so far
    tx_builder,     \* the TransactionBuilder: its inputs and outputs
    tx_built,       \* what TransactionBuilder::build returned
    dbc_builder,    \* the DbcBuilder: transaction, shares, outputs_content
    dbc_built       \* what DbcBuilder::build returned

amount_vars == <<a, b, op, res, items>>

mint_vars == <<spendbook, snapshot, lock, pc, req, result, recorded, resets>>

builder_vars == <<tx_builder, tx_built, dbc_builder, dbc_built>>

vars == <<a, b, op, res, items, spendbook, snapshot, lock, pc, req, result,
          recorded, resets, tx_builder, tx_built, dbc_builder, dbc_built>>

(***************************************************************************)
(* Bounds of the model (inputs only).                                      *)
(***************************************************************************)
MaxCount == 2       \* small counts 0..MaxCount
MaxBelow == 1       \* counts counter_max - 0..MaxBelow
UnitSpan == 1       \* units -UnitSpan..UnitSpan
UnitEdge == 1       \* units within UnitEdge of unit_min and of unit_max
NumCalls == 2       \* reissue calls made on the mint node
NumNames == 2       \* distinct Dbc names
MaxResets == 1      \* reset_spendbook calls
MaxSumLen == 10     \* Amounts in a sequence given to checked_sum
MaxOutputs == 2     \* outputs added to a TransactionBuilder
MaxShares == 2      \* reissue shares added to a DbcBuilder
NumMintNodes == 2   \* mint nodes that return reissue shares

(***************************************************************************)
(* Program constants.                                                      *)
(***************************************************************************)
counter_max == 1000000000

i8_MAX == 127

i8_MIN == -128

unit_max == i8_MAX - 9

unit_min == -unit_max

\* u32::MAX = 4294967295 as a digit sequence
u32_MAX == <<4, 2, 9, 4, 9, 6, 7, 2, 9, 5>>

(***************************************************************************)
(* Arbitrary-precision non-negative integers as digit sequences, and       *)
(* signed integers as [neg, mag].  The schoolbook algorithms are written   *)
(* position-wise; the only recursion left is along a carry chain (a run    *)
(* of digit sums equal to 9) or a borrow chain inside the shorter operand. *)
(***************************************************************************)
RECURSIVE digits(_)
digits(n) == IF n >= 10 THEN Append(digits(n \div 10), n % 10) ELSE <<n>>

Zeros(k) == [i \in 1..k |-> 0]

\* an Integer of more than this many digits exceeds counter_max (10 digits)
LoopSkipDigits == Len(digits(counter_max)) + 1

MaxOf(m, n) == IF m > n THEN m ELSE n

MinOf(m, n) == IF m < n THEN m ELSE n

StripLeadingZeros(x) ==
    IF \A i \in 1..Len(x) : x[i] = 0 THEN <<0>>
    ELSE LET f == CHOOSE i \in 1..Len(x) :
                      x[i] # 0 /\ \A j \in 1..(i - 1) : x[j] = 0
         IN  SubSeq(x, f, Len(x))

StripTrailingZeros(x) ==
    IF \A i \in 1..Len(x) : x[i] = 0 THEN <<0>>
    ELSE LET l == CHOOSE i \in 1..Len(x) :
                      x[Len(x) + 1 - i] # 0
                      /\ \A j \in 1..(i - 1) : x[Len(x) + 1 - j] = 0
         IN  SubSeq(x, 1, Len(x) + 1 - l)

\* order of two digit sequences of the same length
LexCmp(x, y) ==
    IF x = y THEN "Equal"
    ELSE LET i == CHOOSE i \in 1..Len(x) :
                      x[i] # y[i] /\ \A j \in 1..(i - 1) : x[j] = y[j]
         IN  IF x[i] < y[i] THEN "Less" ELSE "Greater"

\* order of two magnitudes
MagCmp(x, y) ==
    IF Len(x) < Len(y) THEN "Less"
    ELSE IF Len(x) > Len(y) THEN "Greater"
    ELSE LexCmp(x, y)

\* digit i of x counted from the least significant one (1-based), 0 beyond
DigitFromEnd(x, i) == IF i <= Len(x) THEN x[Len(x) + 1 - i] ELSE 0

\* the carry into position i of x + y
RECURSIVE CarryInto(_, _, _)
CarryInto(x, y, i) ==
    IF i = 1 THEN 0
    ELSE LET s == DigitFromEnd(x, i - 1) + DigitFromEnd(y, i - 1)
         IN  IF s >= 10 THEN 1
             ELSE IF s = 9 THEN CarryInto(x, y, i - 1)
             ELSE 0

MagAdd(x, y) ==
    LET n == MaxOf(Len(x), Len(y)) + 1
    IN  StripLeadingZeros(
            [k \in 1..n |->
                (DigitFromEnd(x, n + 1 - k) + DigitFromEnd(y, n + 1 - k)
                 + CarryInto(x, y, n + 1 - k)) % 10])

\* the borrow into position i of x - y, for i - 1 <= Len(y)
RECURSIVE BorrowLow(_, _, _)
BorrowLow(x, y, i) ==
    IF i = 1 THEN 0
    ELSE IF DigitFromEnd(x, i - 1) < DigitFromEnd(y, i - 1) THEN 1
    ELSE IF DigitFromEnd(x, i - 1) > DigitFromEnd(y, i - 1) THEN 0
    ELSE BorrowLow(x, y, i - 1)

\* x - y for x >= y.  Above the digits of y a borrow travels through the
\* zero digits of x up to the lowest non-zero one, which absorbs it.
MagSub(x, y) ==
    LET l == Len(y)
        n == Len(x)
        z == IF \A p \in (l + 1)..n : DigitFromEnd(x, p) = 0 THEN n + 1
             ELSE CHOOSE p \in (l + 1)..n :
                      DigitFromEnd(x, p) # 0
                      /\ \A q \in (l + 1)..(p - 1) : DigitFromEnd(x, q) = 0
        top == BorrowLow(x, y, l + 1)
        BorrowInto(i) == IF i - 1 <= l THEN BorrowLow(x, y, i)
                         ELSE IF i - 1 >= z THEN 0
                         ELSE top
    IN  StripLeadingZeros(
            [k \in 1..n |->
                (DigitFromEnd(x, n + 1 - k) - DigitFromEnd(y, n + 1 - k)
                 - BorrowInto(n + 1 - k) + 10) % 10])

MagIsZero(x) == x = <<0>>

\* x * 10^k
MagShift(x, k) == IF MagIsZero(x) THEN x ELSE x \o Zeros(k)

\* ceil(x / 10^k)
MagDivCeilPow10(x, k) ==
    LET n == Len(x)
        q == IF k >= n THEN <<0>> ELSE SubSeq(x, 1, n - k)
        exact == \A i \in 1..MinOf(k, n) : DigitFromEnd(x, i) = 0
    IN  IF exact THEN q ELSE MagAdd(q, <<1>>)

(***************************************************************************)
(* rug::Integer: a signed arbitrary-precision integer [neg, mag].          *)
(***************************************************************************)
Integer_from(n) == [neg |-> FALSE, mag |-> digits(n)]

\* Integer::from(10).pow(k) * count
Integer_pow10_times(k, count) == [neg |-> FALSE, mag |-> MagShift(digits(count), k)]

\* x + y, both operands non-negative (counts are u32)
Integer_add(x, y) == [neg |-> FALSE, mag |-> MagAdd(x.mag, y.mag)]

\* x - y, both operands non-negative; the result may be negative
Integer_sub(x, y) ==
    IF MagCmp(x.mag, y.mag) = "Less"
    THEN [neg |-> TRUE, mag |-> MagSub(y.mag, x.mag)]
    ELSE [neg |-> FALSE, mag |-> MagSub(x.mag, y.mag)]

\* x > n for a u32 n
Integer_gt(x, n) == ~x.neg /\ MagCmp(x.mag, digits(n)) = "Greater"

\* x % 10 == 0
Integer_mod10_is_zero(x) == x.mag[Len(x.mag)] = 0

\* x.div_ceil(10) for x > 0: the quotient rounded towards plus infinity
Integer_div_ceil10(x) == [neg |-> FALSE, mag |-> MagDivCeilPow10(x.mag, 1)]

RECURSIVE MagToNat(_, _, _)
MagToNat(x, i, acc) ==
    IF i > Len(x) THEN acc ELSE MagToNat(x, i + 1, acc * 10 + x[i])

\* AmountCounter::try_from(x) followed by the guard `v <= counter_max`:
\* [ok |-> TRUE, v |-> the u32] when x fits u32 and the guard passes
try_from_guarded(x) ==
    LET fits_u32 == ~x.neg /\ MagCmp(x.mag, u32_MAX) # "Greater"
        guard    == MagCmp(x.mag, digits(counter_max)) # "Greater"
    IN  IF fits_u32 /\ guard
        THEN [ok |-> TRUE, v |-> MagToNat(x.mag, 1, 0)]
        ELSE [ok |-> FALSE, v |-> 0]

(***************************************************************************)
(* Amount                                                                  *)
(***************************************************************************)
Amount_new(count, unit) == [count |-> count, unit |-> unit]

\* u32 div_ceil(10)
div_ceil10(n) == (n + 9) \div 10

to_normalized(x) == [count |-> Integer_from(x.count), unit |-> x.unit]

\* A zero count stays zero through every iteration of the loop, which then
\* runs until unit reaches unit_max: that case is given in closed form.
RECURSIVE to_highest_unit(_)
to_highest_unit(x) ==
    IF x.count = 0
    THEN Amount_new(0, MaxOf(x.unit, unit_max))
    ELSE IF x.count % 10 = 0 /\ x.unit < unit_max
    THEN to_highest_unit(Amount_new(div_ceil10(x.count), x.unit + 1))
    ELSE Amount_new(x.count, x.unit)

\* normalize without rescaling the count of the higher unit ("option a" of
\* the comment above normalize, which loses information)
normalize_no_rescale(x, y) ==
    LET ha == to_highest_unit(x)
        hb == to_highest_unit(y)
        unit_base == IF ha.unit < hb.unit THEN ha.unit ELSE hb.unit
    IN  <<[count |-> Integer_from(ha.count), unit |-> unit_base],
          [count |-> Integer_from(hb.count), unit |-> unit_base]>>

\* normalize taking the first operand's unit as the base unit
normalize_base_first(x, y) ==
    LET ha == to_highest_unit(x)
        hb == to_highest_unit(y)
    IN  IF ha.unit = hb.unit
        THEN <<to_normalized(ha), to_normalized(hb)>>
        ELSE IF hb.count = 0
        THEN <<to_normalized(ha), [count |-> Integer_from(0), unit |-> ha.unit]>>
        ELSE IF ha.count = 0
        THEN <<[count |-> Integer_from(0), unit |-> hb.unit], to_normalized(hb)>>
        ELSE LET unit_distance == IF ha.unit < hb.unit
                                  THEN hb.unit - ha.unit
                                  ELSE ha.unit - hb.unit
                 unit_base == ha.unit
                 scaled(v) == [count |-> IF v.unit = unit_base
                                         THEN Integer_from(v.count)
                                         ELSE Integer_pow10_times(unit_distance, v.count),
                               unit  |-> unit_base]
             IN  <<scaled(ha), scaled(hb)>>

\* returns the pair <<na, nb>> of NormalizedAmount
normalize(x, y) ==
    LET ha == to_highest_unit(x)
        hb == to_highest_unit(y)
    IN  IF ha.unit = hb.unit
        THEN <<to_normalized(ha), to_normalized(hb)>>
        ELSE IF hb.count = 0
        THEN <<to_normalized(ha), [count |-> Integer_from(0), unit |-> ha.unit]>>
        ELSE IF ha.count = 0
        THEN <<[count |-> Integer_from(0), unit |-> hb.unit], to_normalized(hb)>>
        ELSE LET unit_distance == IF ha.unit < hb.unit
                                  THEN hb.unit - ha.unit
                                  ELSE ha.unit - hb.unit
                 unit_base == IF ha.unit < hb.unit THEN ha.unit ELSE hb.unit
                 scaled(v) == [count |-> IF v.unit = unit_base
                                         THEN Integer_from(v.count)
                                         ELSE Integer_pow10_times(unit_distance, v.count),
                               unit  |-> unit_base]
             IN  <<scaled(ha), scaled(hb)>>

\* `unit += 1` executed k times on an i8: past i8::MAX it panics in a build
\* with overflow checks and wraps around in a build without them (wrap).
i8_add(unit, k, wrap) ==
    IF unit + k <= i8_MAX THEN [panic |-> FALSE, v |-> unit + k]
    ELSE IF wrap THEN [panic |-> FALSE, v |-> ((unit + k - i8_MIN) % 256) + i8_MIN]
    ELSE [panic |-> TRUE, v |-> i8_MAX]

\* The canonicalization loop of checked_add, one iteration per step.
RECURSIVE add_loop_steps(_, _, _)
add_loop_steps(count_sum, unit, wrap) ==
    IF Integer_gt(count_sum, counter_max) \/ Integer_mod10_is_zero(count_sum)
    THEN LET u == i8_add(unit, 1, wrap)
         IN  IF u.panic
             THEN [panic |-> TRUE, count |-> count_sum, unit |-> unit]
             ELSE add_loop_steps(Integer_div_ceil10(count_sum), u.v, wrap)
    ELSE [panic |-> FALSE, count |-> count_sum, unit |-> unit]

\* The loop from its start.  While count_sum has more than LoopSkipDigits
\* digits it exceeds counter_max, so the loop's condition holds whatever the
\* last digit is: those k iterations, each `unit += 1` and
\* `count_sum = count_sum.div_ceil(10)`, are taken at once
\* (ceil(ceil(x / 10) / 10) = ceil(x / 100)).
add_loop(count_sum, unit, wrap) ==
    LET n == Len(count_sum.mag)
        k == IF n > LoopSkipDigits THEN n - LoopSkipDigits ELSE 0
        u == i8_add(unit, k, wrap)
    IN  IF u.panic
        THEN [panic |-> TRUE, count |-> count_sum, unit |-> unit]
        ELSE add_loop_steps([neg |-> FALSE, mag |-> MagDivCeilPow10(count_sum.mag, k)],
                            u.v, wrap)

Ok(v) == [tag |-> "Ok", amount |-> v]

Err(e) == [tag |-> "Err", error |-> e]

Panic == [tag |-> "Panic"]

NoResult == [tag |-> "None"]

checked_add(x, y, wrap) ==
    LET n  == normalize(x, y)
        s  == Integer_add(n[1].count, n[2].count)
        l  == IF Integer_gt(s, 0)
              THEN add_loop(s, n[1].unit, wrap)
              ELSE [panic |-> FALSE, count |-> s, unit |-> n[1].unit]
        t  == try_from_guarded(l.count)
    IN  IF l.panic THEN Panic
        ELSE IF t.ok THEN Ok(Amount_new(t.v, l.unit))
        ELSE Err("AmountIncompatible")

\* cmp without the comparison of the longer digit sequence's tail
cmp_no_tail(x, y) ==
    IF x.count = 0 /\ y.count # 0 THEN "Less"
    ELSE IF x.count = 0 /\ y.count = 0 THEN "Equal"
    ELSE IF y.count = 0 THEN "Greater"
    ELSE IF x.unit = y.unit
    THEN (IF x.count < y.count THEN "Less"
          ELSE IF x.count > y.count THEN "Greater" ELSE "Equal")
    ELSE LET a_digits == digits(x.count)
             b_digits == digits(y.count)
             a_num_digits == x.unit + Len(a_digits)
             b_num_digits == y.unit + Len(b_digits)
             zip_len == IF Len(a_digits) < Len(b_digits)
                        THEN Len(a_digits) ELSE Len(b_digits)
         IN  IF a_num_digits = b_num_digits
             THEN LexCmp(SubSeq(a_digits, 1, zip_len), SubSeq(b_digits, 1, zip_len))
             ELSE IF a_num_digits < b_num_digits THEN "Less" ELSE "Greater"

\* impl Ord for Amount
cmp(x, y) ==
    IF x.count = 0 /\ y.count # 0 THEN "Less"
    ELSE IF x.count = 0 /\ y.count = 0 THEN "Equal"
    ELSE IF y.count = 0 THEN "Greater"
    ELSE IF x.unit = y.unit
    THEN (IF x.count < y.count THEN "Less"
          ELSE IF x.count > y.count THEN "Greater" ELSE "Equal")
    ELSE LET a_digits == digits(x.count)
             b_digits == digits(y.count)
             a_num_digits == x.unit + Len(a_digits)
             b_num_digits == y.unit + Len(b_digits)
             zip_len == IF Len(a_digits) < Len(b_digits)
                        THEN Len(a_digits) ELSE Len(b_digits)
             zipped == LexCmp(SubSeq(a_digits, 1, zip_len),
                              SubSeq(b_digits, 1, zip_len))
         IN  IF a_num_digits = b_num_digits
             THEN IF zipped # "Equal" THEN zipped
                  ELSE IF Len(a_digits) > Len(b_digits)
                          /\ \E i \in (Len(b_digits) + 1)..Len(a_digits) : a_digits[i] > 0
                  THEN "Greater"
                  ELSE IF Len(a_digits) < Len(b_digits)
                          /\ \E i \in (Len(a_digits) + 1)..Len(b_digits) : b_digits[i] > 0
                  THEN "Less"
                  ELSE "Equal"
             ELSE IF a_num_digits < b_num_digits THEN "Less" ELSE "Greater"

\* impl PartialEq for Amount
eq(x, y) == cmp(x, y) = "Equal"

\* `a.count - b.count` of checked_sub, on the normalized pair
count_diff(x, y) ==
    LET n == normalize(x, y) IN Integer_sub(n[1].count, n[2].count)

\* checked_sub whose underflow test compares the counts alone
checked_sub_cmp_counts(x, y) ==
    IF x.count < y.count THEN Err("AmountUnderflow")
    ELSE LET n == normalize(x, y)
             t == try_from_guarded(count_diff(x, y))
         IN  IF t.ok THEN Ok(Amount_new(t.v, n[1].unit))
             ELSE Err("AmountIncompatible")

checked_sub(x, y) ==
    IF cmp(x, y) = "Less" THEN Err("AmountUnderflow")
    ELSE LET n == normalize(x, y)
             t == try_from_guarded(count_diff(x, y))
         IN  IF t.ok THEN Ok(Amount_new(t.v, n[1].unit))
             ELSE Err("AmountIncompatible")

\* Amount::default()
Amount_default == Amount_new(0, 0)

\* the loop of checked_sum from item i on: `sum = sum.checked_add(v)?`
RECURSIVE checked_sum_from(_, _, _, _)
checked_sum_from(sum, iter, i, wrap) ==
    IF i > Len(iter) THEN Ok(sum)
    ELSE LET r == checked_add(sum, iter[i], wrap)
         IN  IF r.tag = "Ok" THEN checked_sum_from(r.amount, iter, i + 1, wrap)
             ELSE r

checked_sum(iter, wrap) == checked_sum_from(Amount_default, iter, 1, wrap)

\* the BTreeMap of to_si_string: the SI-prefixed units and their names
si_map ==
    {<<24, "yotta">>, <<21, "zetta">>, <<18, "exa">>, <<15, "peta">>,
     <<12, "tera">>, <<9, "giga">>, <<6, "mega">>, <<3, "kilo">>,
     <<2, "hecto">>, <<1, "deka">>, <<0, "">>, <<-1, "deci">>,
     <<-2, "centi">>, <<-3, "milli">>, <<-6, "micro">>, <<-9, "nano">>,
     <<-12, "pico">>, <<-15, "femto">>, <<-18, "atto">>, <<-21, "zepto">>,
     <<-24, "yocto">>}

si_units == {e[1] : e \in si_map}

\* map.get(&unit)
si_name(unit) == (CHOOSE e \in si_map : e[1] = unit)[2]

\* the unit whose name a formatted string ends with
si_unit_named(name) == (CHOOSE e \in si_map : e[2] = name)[1]

abs(n) == IF n < 0 THEN -n ELSE n

\* the loop of to_si_string: from unit, step towards zero until a unit of
\* the map is met
RECURSIVE si_loop(_, _)
si_loop(unit, self_unit) ==
    IF unit \in si_units THEN unit
    ELSE si_loop(unit + (IF self_unit >= 0 THEN -1 ELSE 1), self_unit)

\* impl Display for Amount: "{count}*10^{unit}"
to_string(x) == [form |-> "plain", count |-> digits(x.count), unit |-> x.unit]

\* the String is kept by its parts: "{newcount} {name}", or to_string
to_si_string(x) ==
    IF x.unit >= -24 /\ x.unit <= 24
    THEN LET unit == si_loop(x.unit, x.unit)
             diff == abs(x.unit) - abs(unit)
             newcount == Integer_pow10_times(diff, x.count)
         IN  [form |-> "si", count |-> newcount.mag, name |-> si_name(unit)]
    ELSE to_string(x)

(***************************************************************************)
(* The rational value count * 10^unit of an Amount.                        *)
(*                                                                         *)
(* to_rational gives rug's canonical (lowest-terms) Rational: the          *)
(* numerator as a digit sequence and the denominator 2^den2 * 5^den5 by    *)
(* its exponents.  Two Amounts have the same canonical Rational iff they   *)
(* denote the same value; this is what impl Hash feeds to the hasher.      *)
(***************************************************************************)
RECURSIVE Multiplicity(_, _)
Multiplicity(n, p) == IF n % p = 0 THEN 1 + Multiplicity(n \div p, p) ELSE 0

RECURSIVE Pow(_, _)
Pow(p, k) == IF k = 0 THEN 1 ELSE p * Pow(p, k - 1)

\* the fields (count, unit) as they are, as a derived Hash would feed them
to_rational_fields(x) == [num |-> digits(x.count), den2 |-> x.unit, den5 |-> 0]

to_rational(x) ==
    IF x.count = 0 THEN [num |-> <<0>>, den2 |-> 0, den5 |-> 0]
    ELSE IF x.unit >= 0
    THEN [num |-> MagShift(digits(x.count), x.unit), den2 |-> 0, den5 |-> 0]
    ELSE LET k  == -x.unit
             t2 == MinOf(Multiplicity(x.count, 2), k)
             t5 == MinOf(Multiplicity(x.count, 5), k)
         IN  [num  |-> digits(x.count \div (Pow(2, t2) * Pow(5, t5))),
              den2 |-> k - t2,
              den5 |-> k - t5]

\* the integer x.to_rational() * 10^(-base), for base <= x.unit
ScaledValue(x, base) == MagShift(digits(x.count), x.unit - base)

\* x.to_rational().cmp(&y.to_rational())
rational_cmp(x, y) ==
    LET base == MinOf(x.unit, y.unit)
    IN  MagCmp(ScaledValue(x, base), ScaledValue(y, base))

\* s.to_rational() == x.to_rational() + y.to_rational()
rational_is_sum(s, x, y) ==
    LET base == MinOf(s.unit, MinOf(x.unit, y.unit))
    IN  ScaledValue(s, base) = MagAdd(ScaledValue(x, base), ScaledValue(y, base))

\* the value x + y can be written as count * 10^unit with count <= counter_max:
\* its digits without the trailing zeros are at most counter_max
sum_representable(x, y) ==
    LET base == MinOf(x.unit, y.unit)
        sum  == MagAdd(ScaledValue(x, base), ScaledValue(y, base))
    IN  MagCmp(StripTrailingZeros(sum), digits(counter_max)) # "Greater"

(***************************************************************************)
(* The client-side builders (src/src/builder.rs).  The cryptographic       *)
(* collaborators are kept by what identifies their values: a DbcContent by *)
(* its fields, an envelope by the slip it hides and its blinding, a        *)
(* signature share by the node, the envelope and the key it was made with, *)
(* a combined signature by the shares it combines.                         *)
(***************************************************************************)
Owners == {"owner"}

Denominations == {Amount_new(1, 0), Amount_new(2, 0)}

\* a set as a sequence, in some order
SeqOf(S) ==
    CHOOSE q \in [1..Cardinality(S) -> S] : {q[i] : i \in 1..Cardinality(S)} = S

\* the sequences that enumerate S, each element once
Orders(S) ==
    {q \in [1..Cardinality(S) -> S] : {q[i] : i \in 1..Cardinality(S)} = S}

Range(q) == {q[i] : i \in 1..Len(q)}

\* DbcContent::new(owner, denomination); nonce is its fresh slip material
DbcContent_new(owner, denomination, nonce) ==
    [owner |-> owner, denomination |-> denomination, nonce |-> nonce]

\* the hash of a DbcContent: an injective scrambling of its fields
HashModulus == 31

content_hash(c) == (7 * (3 * c.nonce + c.denomination.count) + 3) % HashModulus

\* Dbc::name()
name(dbc) == content_hash(dbc.content)

\* DbcContent::slip()
slip(c) == content_hash(c)

\* SlipPreparer::new().place_slip_in_envelope(&slip), blinding being fresh
place_slip_in_envelope(s, blinding) == [slip |-> s, blinding |-> blinding]

\* the DbcEnvelope that TransactionBuilder::build makes for a content
DbcEnvelope_for(c) ==
    [envelope |-> place_slip_in_envelope(slip(c), c.nonce),
     denomination |-> c.denomination]

\* a DbcEnvelope of some other transaction: no build here blinds with 0
foreign_DbcEnvelope(c) ==
    [envelope |-> place_slip_in_envelope(slip(c), 0),
     denomination |-> c.denomination]

MasterKeySet == [id |-> "mint", child |-> <<>>]

OtherKeySet == [id |-> "other", child |-> <<>>]

\* at least Threshold + 1 shares are needed to combine a signature
Threshold == 1

MintNodes == 1..NumMintNodes

\* Amount::to_be_bytes(): the key-derivation index of a denomination
to_be_bytes(amount) == <<amount.count, amount.unit>>

\* PublicKeySet::derive_child(&index)
derive_child(pks, index) == [pks EXCEPT !.child = Append(@, index)]

\* PublicKeySet::public_key()
public_key(pks) == [of |-> pks]

\* PublicKeySet::combine_signatures(shares)
combine_signatures(pks, shares) ==
    IF Len(shares) <= Threshold THEN [tag |-> "Err", error |-> "Blsttc"]
    ELSE [tag |-> "Ok", signature |-> [under |-> pks, shares |-> Range(shares)]]

\* the Dbcs a client holds and can give as inputs, one per name
InputDbcs ==
    {[content |-> DbcContent_new("owner", Amount_new(2, 0), 0),
      mint_public_key |->
          public_key(derive_child(MasterKeySet, to_be_bytes(Amount_new(2, 0)))),
      mint_signature |-> [under |-> MasterKeySet, shares |-> {}]]}

Outputs == [denomination : Denominations, owner : Owners]

\* TransactionBuilder::default() and DbcBuilder::default()
TransactionBuilder_default == [inputs |-> {}, outputs |-> <<>>]

None == [some |-> FALSE]

Some(v) == [some |-> TRUE, v |-> v]

EmptyMap == [k \in {} |-> k]

DbcBuilder_default ==
    [reissue_transaction |-> None, reissue_shares |-> <<>>,
     outputs_content |-> EmptyMap]

\* HashMap::insert and HashMap::extend
map_insert(m, k, v) ==
    [x \in (DOMAIN m) \cup {k} |-> IF x = k THEN v ELSE m[x]]

map_extend(m, n) ==
    [x \in (DOMAIN m) \cup (DOMAIN n) |-> IF x \in DOMAIN n THEN n[x] ELSE m[x]]

BuilderFresh ==
    /\ tx_builder = TransactionBuilder_default
    /\ tx_built = NoResult
    /\ dbc_builder = DbcBuilder_default
    /\ dbc_built = NoResult

\* TransactionBuilder::inputs_amount_sum and outputs_amount_sum
inputs_amount_sum(self) ==
    LET dbcs == SeqOf(self.inputs)
    IN  checked_sum([i \in 1..Len(dbcs) |-> dbcs[i].content.denomination], FALSE)

outputs_amount_sum(self) ==
    checked_sum([i \in 1..Len(self.outputs) |-> self.outputs[i].denomination],
                FALSE)

\* TransactionBuilder::build
TransactionBuilder_build(self) ==
    LET outputs_content ==
            {DbcContent_new(self.outputs[i].owner, self.outputs[i].denomination, i)
                : i \in 1..Len(self.outputs)}
        keys == {DbcEnvelope_for(c) : c \in outputs_content}
        map == [k \in keys |->
                   CHOOSE c \in outputs_content : DbcEnvelope_for(c) = k]
        rt == [inputs |-> self.inputs, outputs |-> DOMAIN map]
    IN  [tag |-> "Ok", transaction |-> rt, map |-> map]

\* ReissueTransaction::blinded(): input names and output envelopes only
blinded(rt) ==
    [inputs |-> {name(d) : d \in rt.inputs},
     outputs |-> {k.envelope : k \in rt.outputs}]

\* the share of a signature over an envelope made by a mint node
SignedEnvelopeShare(node, envelope, pks) ==
    [envelope |-> envelope, node |-> node, public_key_set |-> pks]

\* SignedEnvelopeShare::signature_share_for_envelope_with_index()
signature_share_for_envelope_with_index(ses) ==
    <<ses.node, [envelope |-> ses.envelope, public_key_set |-> ses.public_key_set]>>

\* one ReissueShare's checks in the loop of DbcBuilder::build without the
\* search of each output envelope among the signed envelope shares
share_error_no_search(rt, rs) ==
    IF blinded(rt) # rs.dbc_transaction
    THEN "ReissueShareDbcTransactionMismatch"
    ELSE IF Len(rs.signed_envelope_shares) # Cardinality(rt.outputs)
    THEN "ReissueShareMintNodeSignaturesLenMismatch"
    ELSE "none"

\* one ReissueShare's checks in the loop of DbcBuilder::build
share_error(rt, rs) ==
    IF blinded(rt) # rs.dbc_transaction
    THEN "ReissueShareDbcTransactionMismatch"
    ELSE IF Len(rs.signed_envelope_shares) # Cardinality(rt.outputs)
    THEN "ReissueShareMintNodeSignaturesLenMismatch"
    ELSE IF \E k \in rt.outputs :
                \A i \in 1..Len(rs.signed_envelope_shares) :
                    rs.signed_envelope_shares[i].envelope # k.envelope
    THEN "ReissueShareMintNodeSignatureNotFoundForInput"
    ELSE "none"

\* every SignedEnvelopeShare of the ReissueShares, in the order of the loop
RECURSIVE all_signed_envelope_shares(_, _)
all_signed_envelope_shares(shares, i) ==
    IF i > Len(shares) THEN <<>>
    ELSE shares[i].signed_envelope_shares
         \o all_signed_envelope_shares(shares, i + 1)

\* output_dbcs left in the order of the iteration over outputs_content
sort_by_key_unsorted(dbcs) == dbcs

\* output_dbcs.sort_by_key(|d| d.name()): a stable sort
sort_by_key(dbcs) ==
    LET n == Len(dbcs)
        rank(i) == Cardinality({j \in 1..n : name(dbcs[j]) < name(dbcs[i])})
                   + Cardinality({j \in 1..(i - 1) : name(dbcs[j]) = name(dbcs[i])})
                   + 1
    IN  [k \in 1..n |-> dbcs[CHOOSE i \in 1..n : rank(i) = k]]

\* DbcBuilder::build; order is the order in which the HashMap
\* outputs_content yields its entries
DbcBuilder_build(self, order) ==
    IF Len(self.reissue_shares) = 0 THEN Err("NoReissueShares")
    ELSE IF ~self.reissue_transaction.some THEN Err("NoReissueTransaction")
    ELSE
    LET rt == self.reissue_transaction.v
        shares == self.reissue_shares
        failing == {i \in 1..Len(shares) : share_error(rt, shares[i]) # "none"}
        collected == all_signed_envelope_shares(shares, 1)
        \* signed_envelope_shares.get(&envelope)
        share_list(e) == SelectSeq(collected, LAMBDA ses : ses.envelope = e)
        pk_set == {shares[i].public_key_set : i \in 1..Len(shares)}
        mint_public_key_set == CHOOSE pks \in pk_set : TRUE
        \* one iteration of the loop that generates the final output Dbcs
        output(k) ==
            IF share_list(k.envelope) = <<>> THEN Panic
            ELSE LET list == share_list(k.envelope)
                     mint_sig_shares_ref ==
                         [i \in 1..Len(list) |->
                             signature_share_for_envelope_with_index(list[i])]
                     denom_idx == to_be_bytes(k.denomination)
                     mint_derived_pks == derive_child(mint_public_key_set, denom_idx)
                     mint_sig == combine_signatures(mint_derived_pks,
                                                    mint_sig_shares_ref)
                 IN  IF mint_sig.tag = "Err" THEN mint_sig
                     ELSE [tag |-> "Dbc",
                           dbc |-> [content |-> self.outputs_content[k],
                                    mint_public_key |-> public_key(mint_derived_pks),
                                    mint_signature |-> mint_sig.signature]]
        stopping == {i \in 1..Len(order) : output(order[i]).tag # "Dbc"}
    IN  IF failing # {}
        THEN Err(share_error(rt, shares[CHOOSE i \in failing :
                                            \A j \in failing : i <= j]))
        ELSE IF Cardinality(pk_set) # 1
        THEN Err("ReissueSharePublicKeySetMismatch")
        ELSE IF stopping # {}
        THEN output(order[CHOOSE i \in stopping : \A j \in stopping : i <= j])
        ELSE [tag |-> "Ok",
              dbcs |-> sort_by_key([i \in 1..Len(order) |-> output(order[i]).dbc])]

(***************************************************************************)
(* The mint node: reissue, snapshot_spendbook and reset_spendbook, as      *)
(* called by benches/reissue.rs.  A request is abstracted to the set of    *)
(* its input names, the expected input names passed with it, and the first *)
(* validation it fails (its cryptographic and structural content).         *)
(***************************************************************************)
Calls == 1..NumCalls

Names == 1..NumNames

NoCall == 0

NoSnapshot == [taken |-> FALSE, book |-> {}]

Defects == {"FilteredInputNotPresent", "TransactionValueMismatch",
            "InvalidMintSignature", "UnrecognizedDenomination",
            "MissingInputOwnerProof", "FailedSignature"}

\* Requests without a defect name any set of inputs (none: an empty
\* transaction); a request with a defect names every Dbc.
Requests ==
    [inputs : SUBSET Names, defect : {"none"}]
    \cup [inputs : {Names}, defect : Defects]

NoRequest == [inputs |-> {}, defect |-> "none"]

\* steps 1 and 2 of reissue: shape check and transaction validity
validation_error(r) ==
    IF r.defect = "FilteredInputNotPresent" THEN r.defect
    ELSE IF r.inputs = {} THEN "EmptyTransaction"
    ELSE IF r.defect = "TransactionValueMismatch" THEN r.defect
    ELSE "none"

\* steps 3 and 4 of reissue: mint signatures of the inputs, ownership proofs
verification_error(r) ==
    IF r.defect \in {"InvalidMintSignature", "UnrecognizedDenomination"}
    THEN r.defect
    ELSE IF r.defect \in {"MissingInputOwnerProof", "FailedSignature"}
    THEN r.defect
    ELSE "none"

\* step 5 with the check of the lowest input name only
arbitrate_first_only(book, inputs) ==
    LET first == CHOOSE n \in inputs : \A m \in inputs : n <= m
    IN  IF first \in book
        THEN [error |-> "DbcAlreadySpent", book |-> book, inserted |-> {}]
        ELSE [error |-> "none", book |-> book \cup inputs, inserted |-> inputs]

\* step 5 recording input by input until a spent one is met
arbitrate_partial(book, inputs) ==
    IF inputs \cap book # {}
    THEN [error |-> "DbcAlreadySpent", book |-> book \cup inputs,
          inserted |-> inputs \ book]
    ELSE [error |-> "none", book |-> book \cup inputs, inserted |-> inputs]

\* step 5 without the spend-book lookup
arbitrate_unchecked(book, inputs) ==
    [error |-> "none", book |-> book \cup inputs, inserted |-> inputs]

\* step 5 of reissue, double-spend arbitration: all input names are recorded,
\* or none is when one of them is already in the spend-book
arbitrate(book, inputs) ==
    IF inputs \cap book # {}
    THEN [error |-> "DbcAlreadySpent", book |-> book, inserted |-> {}]
    ELSE [error |-> "none", book |-> book \cup inputs, inserted |-> inputs]

MintFresh ==
    /\ spendbook = {}
    /\ snapshot = NoSnapshot
    /\ lock = NoCall
    /\ pc = [c \in Calls |-> "idle"]
    /\ req = [c \in Calls |-> NoRequest]
    /\ result = [c \in Calls |-> NoResult]
    /\ recorded = [c \in Calls |-> {}]
    /\ resets = 0

\* no Amount operation is under test
AmountIdle ==
    /\ a = Amount_new(0, 0)
    /\ b = Amount_new(0, 0)
    /\ op = "none"
    /\ res = NoResult
    /\ items = <<>>

MintInit ==
    /\ MintFresh
    /\ AmountIdle
    /\ BuilderFresh

Returns(c, r) ==
    /\ pc' = [pc EXCEPT ![c] = "returned"]
    /\ result' = [result EXCEPT ![c] = r]

\* mint.reissue(request, expected_input_names) is called
CallReissue(c) ==
    /\ pc[c] = "idle"
    /\ \E r \in Requests : req' = [req EXCEPT ![c] = r]
    /\ pc' = [pc EXCEPT ![c] = "validate"]
    /\ UNCHANGED <<spendbook, snapshot, lock, result, recorded, resets>>
    /\ UNCHANGED <<amount_vars, builder_vars>>

\* steps 1 and 2
Validate(c) ==
    /\ pc[c] = "validate"
    /\ IF validation_error(req[c]) # "none"
       THEN Returns(c, Err(validation_error(req[c])))
       ELSE pc' = [pc EXCEPT ![c] = "enter"] /\ UNCHANGED result
    /\ UNCHANGED <<spendbook, snapshot, lock, req, recorded, resets>>
    /\ UNCHANGED <<amount_vars, builder_vars>>

\* the call enters the critical section around steps 3 to 5
Enter(c) ==
    /\ pc[c] = "enter"
    /\ lock = NoCall
    /\ lock' = c
    /\ pc' = [pc EXCEPT ![c] = "verify"]
    /\ UNCHANGED <<spendbook, snapshot, req, result, recorded, resets>>
    /\ UNCHANGED <<amount_vars, builder_vars>>

\* steps 3 and 4
Verify(c) ==
    /\ pc[c] = "verify"
    /\ IF verification_error(req[c]) # "none"
       THEN Returns(c, Err(verification_error(req[c]))) /\ lock' = NoCall
       ELSE pc' = [pc EXCEPT ![c] = "arbitrate"] /\ UNCHANGED <<result, lock>>
    /\ UNCHANGED <<spendbook, snapshot, req, recorded, resets>>
    /\ UNCHANGED <<amount_vars, builder_vars>>

\* step 5, and the critical section is left
Arbitrate(c) ==
    /\ pc[c] = "arbitrate"
    /\ LET r == arbitrate(spendbook, req[c].inputs)
       IN  /\ spendbook' = r.book
           /\ recorded' = [recorded EXCEPT ![c] = r.inserted]
           /\ IF r.error # "none"
              THEN Returns(c, Err(r.error))
              ELSE pc' = [pc EXCEPT ![c] = "sign"] /\ UNCHANGED result
    /\ lock' = NoCall
    /\ UNCHANGED <<snapshot, req, resets>>
    /\ UNCHANGED <<amount_vars, builder_vars>>

\* steps 6 and 7: the outputs are signed and the ReissueShare is returned
Sign(c) ==
    /\ pc[c] = "sign"
    /\ Returns(c, [tag |-> "Ok"])
    /\ UNCHANGED <<spendbook, snapshot, lock, req, recorded, resets>>
    /\ UNCHANGED <<amount_vars, builder_vars>>

\* mint.snapshot_spendbook()
SnapshotSpendbook ==
    /\ lock = NoCall
    /\ snapshot # [taken |-> TRUE, book |-> spendbook]
    /\ snapshot' = [taken |-> TRUE, book |-> spendbook]
    /\ UNCHANGED <<spendbook, lock, pc, req, result, recorded, resets>>
    /\ UNCHANGED <<amount_vars, builder_vars>>

\* mint.reset_spendbook(snapshot); the names no longer in the spend-book are
\* no longer on record for the call that wrote them
ResetSpendbook ==
    /\ lock = NoCall
    /\ snapshot.taken
    /\ resets < MaxResets
    /\ spendbook' = snapshot.book
    /\ recorded' = [c \in Calls |-> recorded[c] \cap snapshot.book]
    /\ resets' = resets + 1
    /\ UNCHANGED <<snapshot, lock, pc, req, result>>
    /\ UNCHANGED <<amount_vars, builder_vars>>

MintNext ==
    \/ \E c \in Calls : CallReissue(c)
    \/ \E c \in Calls : Validate(c)
    \/ \E c \in Calls : Enter(c)
    \/ \E c \in Calls : Verify(c)
    \/ \E c \in Calls : Arbitrate(c)
    \/ \E c \in Calls : Sign(c)
    \/ SnapshotSpendbook
    \/ ResetSpendbook

MintSpec == MintInit /\ [][MintNext]_vars

(***************************************************************************)
(* The Amount operations applied to every pair of valid inputs.            *)
(***************************************************************************)
Counts ==
    (0..MaxCount)
    \cup {counter_max - c : c \in 0..MaxBelow}
    \cup {9, 10, 25, 250, 255, 500000000}

Units ==
    ((-UnitSpan)..UnitSpan)
    \cup {unit_max - e : e \in 0..UnitEdge}
    \cup {unit_min + e : e \in 0..UnitEdge}
    \cup {3, -20}

Amounts == {Amount_new(c, u) : c \in Counts, u \in Units}

AmountInit ==
    /\ a \in Amounts
    /\ b \in Amounts
    /\ op = "none"
    /\ res = NoResult
    /\ items = <<>>
    /\ MintFresh
    /\ BuilderFresh

\* a.checked_add(b)
CheckedAdd ==
    /\ op = "none"
    /\ \E wrap \in BOOLEAN : res' = checked_add(a, b, wrap)
    /\ op' = "checked_add"
    /\ UNCHANGED <<a, b, items>>
    /\ UNCHANGED <<mint_vars, builder_vars>>

\* a.checked_sub(b)
CheckedSub ==
    /\ op = "none"
    /\ res' = checked_sub(a, b)
    /\ op' = "checked_sub"
    /\ UNCHANGED <<a, b, items>>
    /\ UNCHANGED <<mint_vars, builder_vars>>

\* a.cmp(&b), and the values a.hash() and b.hash() feed to the hasher
Compare ==
    /\ op = "none"
    /\ res' = [tag |-> "Ordering", ordering |-> cmp(a, b),
               hashed_a |-> to_rational(a), hashed_b |-> to_rational(b)]
    /\ op' = "cmp"
    /\ UNCHANGED <<a, b, items>>
    /\ UNCHANGED <<mint_vars, builder_vars>>

\* a.to_si_string()
ToSiString ==
    /\ op = "none"
    /\ res' = to_si_string(a)
    /\ op' = "to_si_string"
    /\ UNCHANGED <<a, b, items>>
    /\ UNCHANGED <<mint_vars, builder_vars>>

AmountNext == CheckedAdd \/ CheckedSub \/ Compare \/ ToSiString

AmountSpec == AmountInit /\ [][AmountNext]_vars

(***************************************************************************)
(* checked_sum applied to every sequence of at most MaxSumLen Amounts      *)
(* drawn from SumAmounts.                                                  *)
(***************************************************************************)
\* Amount::max()
Amount_max == Amount_new(counter_max, unit_max)

SumAmounts == {Amount_max, Amount_new(1, 0)}

SumInputs == UNION {[1..n -> SumAmounts] : n \in 0..MaxSumLen}

SumInit ==
    /\ items \in SumInputs
    /\ a = Amount_new(0, 0)
    /\ b = Amount_new(0, 0)
    /\ op = "none"
    /\ res = NoResult
    /\ MintFresh
    /\ BuilderFresh

\* Amount::checked_sum(items.into_iter())
CheckedSum ==
    /\ op = "none"
    /\ \E wrap \in BOOLEAN : res' = checked_sum(items, wrap)
    /\ op' = "checked_sum"
    /\ UNCHANGED <<a, b, items>>
    /\ UNCHANGED <<mint_vars, builder_vars>>

SumNext == CheckedSum

SumSpec == SumInit /\ [][SumNext]_vars

(***************************************************************************)
(* A client that fills a TransactionBuilder, builds the transaction, and   *)
(* then fills a DbcBuilder with the transaction, the reissue shares that   *)
(* mint nodes return for it (or for another transaction, or incomplete     *)
(* ones) and output contents, and builds the output Dbcs.                  *)
(***************************************************************************)
\* a transaction other than rt: the one that spends the client's other Dbcs
OtherTransaction(rt) == [rt EXCEPT !.inputs = InputDbcs \ rt.inputs]

\* the ReissueShare that a mint node signing with pks returns for rt
reissue_share(node, rt, pks) ==
    LET envelopes == SeqOf({k.envelope : k \in rt.outputs})
    IN  [dbc_transaction |-> blinded(rt),
         signed_envelope_shares |->
             [i \in 1..Len(envelopes) |->
                 SignedEnvelopeShare(node, envelopes[i], pks)],
         public_key_set |-> pks]

\* rs without its last signed envelope share
without_last(rs) ==
    [rs EXCEPT !.signed_envelope_shares = SubSeq(@, 1, Len(@) - 1)]

\* rs with its last signed envelope share made over another envelope
with_foreign_last(rs) ==
    LET list == rs.signed_envelope_shares
        last == list[Len(list)]
        foreign == [last EXCEPT !.envelope =
                       place_slip_in_envelope(last.envelope.slip, 0)]
    IN  [rs EXCEPT !.signed_envelope_shares =
            [i \in 1..Len(list) |-> IF i = Len(list) THEN foreign ELSE list[i]]]

ReissueShares(rt) ==
    UNION {
        LET good == reissue_share(node, rt, MasterKeySet)
        IN  {good,
             reissue_share(node, rt, OtherKeySet),
             reissue_share(node, OtherTransaction(rt), MasterKeySet)}
            \cup (IF rt.outputs = {} THEN {}
                  ELSE {without_last(good), with_foreign_last(good)})
        : node \in MintNodes}

\* the (DbcEnvelope, DbcContent) pairs a client can add: a content of the
\* built map under any of the map's envelopes, or under a foreign envelope
OutputContents(map) ==
    LET contents == {map[k] : k \in DOMAIN map}
    IN  {<<k, c>> : k \in DOMAIN map, c \in contents}
        \cup {<<foreign_DbcEnvelope(c), c>> : c \in contents}

BuilderInit ==
    /\ BuilderFresh
    /\ AmountIdle
    /\ MintFresh

\* TransactionBuilder::add_input
AddInput(dbc) ==
    /\ tx_built = NoResult
    /\ tx_builder' = [tx_builder EXCEPT !.inputs = @ \cup {dbc}]
    /\ UNCHANGED <<tx_built, dbc_builder, dbc_built>>
    /\ UNCHANGED <<amount_vars, mint_vars>>

\* TransactionBuilder::add_inputs
AddInputs(dbcs) ==
    /\ tx_built = NoResult
    /\ tx_builder' = [tx_builder EXCEPT !.inputs = @ \cup dbcs]
    /\ UNCHANGED <<tx_built, dbc_builder, dbc_built>>
    /\ UNCHANGED <<amount_vars, mint_vars>>

\* TransactionBuilder::add_output
AddOutput(output) ==
    /\ tx_built = NoResult
    /\ Len(tx_builder.outputs) < MaxOutputs
    /\ tx_builder' = [tx_builder EXCEPT !.outputs = Append(@, output)]
    /\ UNCHANGED <<tx_built, dbc_builder, dbc_built>>
    /\ UNCHANGED <<amount_vars, mint_vars>>

\* TransactionBuilder::add_outputs
AddOutputs(outputs) ==
    /\ tx_built = NoResult
    /\ Len(tx_builder.outputs) + Len(outputs) <= MaxOutputs
    /\ tx_builder' = [tx_builder EXCEPT !.outputs = @ \o outputs]
    /\ UNCHANGED <<tx_built, dbc_builder, dbc_built>>
    /\ UNCHANGED <<amount_vars, mint_vars>>

\* TransactionBuilder::build
TransactionBuilderBuild ==
    /\ tx_built = NoResult
    /\ tx_built' = TransactionBuilder_build(tx_builder)
    /\ UNCHANGED <<tx_builder, dbc_builder, dbc_built>>
    /\ UNCHANGED <<amount_vars, mint_vars>>

\* DbcBuilder::new(reissue_transaction)
DbcBuilderNew ==
    /\ tx_built # NoResult /\ dbc_built = NoResult
    /\ dbc_builder = DbcBuilder_default
    /\ dbc_builder' = [reissue_transaction |-> Some(tx_built.transaction),
                       reissue_shares |-> <<>>,
                       outputs_content |-> EmptyMap]
    /\ UNCHANGED <<tx_builder, tx_built, dbc_built>>
    /\ UNCHANGED <<amount_vars, mint_vars>>

\* DbcBuilder::set_reissue_transaction
SetReissueTransaction(rt) ==
    /\ tx_built # NoResult /\ dbc_built = NoResult
    /\ dbc_builder' = [dbc_builder EXCEPT !.reissue_transaction = Some(rt)]
    /\ UNCHANGED <<tx_builder, tx_built, dbc_built>>
    /\ UNCHANGED <<amount_vars, mint_vars>>

\* DbcBuilder::add_output_content
AddOutputContent(dbc_envelope, content) ==
    /\ tx_built # NoResult /\ dbc_built = NoResult
    /\ dbc_builder' = [dbc_builder EXCEPT !.outputs_content =
                           map_insert(@, dbc_envelope, content)]
    /\ UNCHANGED <<tx_builder, tx_built, dbc_built>>
    /\ UNCHANGED <<amount_vars, mint_vars>>

\* DbcBuilder::add_outputs_content
AddOutputsContent(contents) ==
    /\ tx_built # NoResult /\ dbc_built = NoResult
    /\ dbc_builder' = [dbc_builder EXCEPT !.outputs_content =
                           map_extend(@, contents)]
    /\ UNCHANGED <<tx_builder, tx_built, dbc_built>>
    /\ UNCHANGED <<amount_vars, mint_vars>>

\* DbcBuilder::add_reissue_share
AddReissueShare(reissue_share_added) ==
    /\ tx_built # NoResult /\ dbc_built = NoResult
    /\ Len(dbc_builder.reissue_shares) < MaxShares
    /\ dbc_builder' = [dbc_builder EXCEPT !.reissue_shares =
                           Append(@, reissue_share_added)]
    /\ UNCHANGED <<tx_builder, tx_built, dbc_built>>
    /\ UNCHANGED <<amount_vars, mint_vars>>

\* DbcBuilder::build
DbcBuilderBuild ==
    /\ tx_built # NoResult /\ dbc_built = NoResult
    /\ \E order \in Orders(DOMAIN dbc_builder.outputs_content) :
           dbc_built' = DbcBuilder_build(dbc_builder, order)
    /\ UNCHANGED <<tx_builder, tx_built, dbc_builder>>
    /\ UNCHANGED <<amount_vars, mint_vars>>

BuilderNext ==
    \/ \E dbc \in InputDbcs : AddInput(dbc)
    \/ \E dbcs \in SUBSET InputDbcs : AddInputs(dbcs)
    \/ \E output \in Outputs : AddOutput(output)
    \/ \E n \in 0..MaxOutputs : \E outputs \in [1..n -> Outputs] :
           AddOutputs(outputs)
    \/ TransactionBuilderBuild
    \/ DbcBuilderNew
    \/ /\ tx_built # NoResult
       /\ \E rt \in {tx_built.transaction,
                      OtherTransaction(tx_built.transaction)} :
              SetReissueTransaction(rt)
    \/ /\ tx_built # NoResult
       /\ \E pair \in OutputContents(tx_built.map) :
              AddOutputContent(pair[1], pair[2])
    \/ /\ tx_built # NoResult
       /\ AddOutputsContent(tx_built.map)
    \/ /\ tx_built # NoResult
       /\ \E rs \in ReissueShares(tx_built.transaction) : AddReissueShare(rs)
    \/ DbcBuilderBuild

BuilderSpec == BuilderInit /\ [][BuilderNext]_vars

(***************************************************************************)
(* Claims about the Amount algebra, checked under AmountSpec.              *)
(***************************************************************************)

\* C1: whenever checked_add(a, b) returns Ok(s) for valid a and b, the value
\* of s is exactly the value of a plus the value of b (no rounding).
C1_AddExact ==
    (op = "checked_add" /\ res.tag = "Ok") => rational_is_sum(res.amount, a, b)

\* C2: checked_add returns Err(AmountIncompatible) whenever the exact sum of
\* a and b cannot be written as count * 10^unit with count <= counter_max.
C2_AddIncompatible ==
    (op = "checked_add" /\ ~sum_representable(a, b))
        => res = Err("AmountIncompatible")

\* C6: checked_sub(a, b) returns Err(AmountUnderflow) exactly when the value
\* of a is strictly less than the value of b; when a >= b the difference of
\* the normalized counts is not negative.
C6_UnderflowIffLess ==
    op = "checked_sub" =>
        /\ (res = Err("AmountUnderflow")) <=> (rational_cmp(a, b) = "Less")
        /\ rational_cmp(a, b) # "Less" => ~count_diff(a, b).neg

C6_Witness ==
    /\ op = "checked_sub"
    /\ res = Err("AmountUnderflow")
    /\ a.unit > b.unit
    /\ a.count > 0

\* C7: for a >= b, whenever checked_sub(a, b) returns Ok(d), the value of d
\* is exactly the value of a minus the value of b (a = d + b).
C7_SubExact ==
    (op = "checked_sub" /\ res.tag = "Ok" /\ rational_cmp(a, b) # "Less")
        => rational_is_sum(a, res.amount, b)

C7_Witness ==
    /\ op = "checked_sub"
    /\ res.tag = "Ok"
    /\ a.unit # b.unit
    /\ b.count > 0
    /\ res.amount.count > 0

\* C8: cmp(a, b) is Less, Equal or Greater exactly when the value of a is
\* less than, equal to or greater than the value of b.
C8_CmpIsRationalOrder ==
    op = "cmp" => res.ordering = rational_cmp(a, b)

C8_Witness ==
    /\ op = "cmp"
    /\ a.count = 25
    /\ b.count = 255
    /\ a.unit = b.unit + 1
    /\ res.ordering = "Less"

\* C9: a == b (as decided by cmp) exactly when a and b feed the same
\* rational value to the hasher.
C9_EqIffSameHashInput ==
    op = "cmp" => ((res.ordering = "Equal") <=> (res.hashed_a = res.hashed_b))

C9_Witness ==
    /\ op = "cmp"
    /\ res.ordering = "Equal"
    /\ a.count > 0
    /\ a.unit # b.unit
    /\ res.hashed_a = res.hashed_b

\* C10: checked_add(a, b) and checked_add(b, a) both fail with the same
\* error or both succeed with equal Amounts.
C10_AddCommutes ==
    op = "checked_add" =>
        \A wrap \in BOOLEAN :
            LET swapped == checked_add(b, a, wrap)
            IN  /\ res.tag = swapped.tag
                /\ res.tag = "Err" => res.error = swapped.error
                /\ res.tag = "Ok" => eq(res.amount, swapped.amount)

C10_Witness ==
    /\ op = "checked_add"
    /\ res.tag = "Ok"
    /\ a.unit # b.unit
    /\ a.count > 0
    /\ b.count > 0
    /\ a.count # b.count

\* the Amount invariants: count <= counter_max, unit_min <= unit <= unit_max
Amount_is_valid(x) ==
    /\ 0 <= x.count /\ x.count <= counter_max
    /\ unit_min <= x.unit /\ x.unit <= unit_max

\* C15: for -24 <= unit <= 24, to_si_string emits the name of the nearest
\* SI-prefixed unit p <= unit with the count count * 10^(unit - p), so that
\* the emitted count times 10^p is the value of the Amount; outside that
\* range it emits the plain form count*10^unit.
C15_SiStringKeepsValue ==
    op = "to_si_string" =>
        IF a.unit >= -24 /\ a.unit <= 24
        THEN /\ res.form = "si"
             /\ LET p == si_unit_named(res.name)
                IN  /\ p <= a.unit
                    /\ \A q \in si_units : q <= a.unit => q <= p
                    /\ res.count = MagShift(digits(a.count), a.unit - p)
        ELSE res = [form |-> "plain", count |-> digits(a.count), unit |-> a.unit]

\* C16: every Ok result of checked_add and checked_sub on valid Amounts is a
\* valid Amount: count <= counter_max and unit_min <= unit <= unit_max.
C16_ResultIsValid ==
    (op \in {"checked_add", "checked_sub"} /\ res.tag = "Ok")
        => Amount_is_valid(res.amount)

\* C17: whenever checked_sub(a, b) returns Ok(d) for a >= b, d is in
\* highest-unit form: d.count is 0 or not divisible by 10.
C17_SubIsCanonical ==
    (op = "checked_sub" /\ res.tag = "Ok" /\ rational_cmp(a, b) # "Less")
        => (res.amount.count = 0 \/ res.amount.count % 10 # 0)

(***************************************************************************)
(* Claims about checked_sum, checked under SumSpec.                        *)
(***************************************************************************)

\* C18: checked_sum of a sequence of valid Amounts ends in Ok or in an
\* error: `unit += 1` never takes the unit past i8::MAX, so the call neither
\* panics on the overflow nor returns an Amount whose unit has wrapped.
C18_SumUnitInRange ==
    op = "checked_sum" =>
        /\ res.tag \in {"Ok", "Err"}
        /\ res = checked_sum(items, FALSE)

(***************************************************************************)
(* Claims about the mint node, checked under MintSpec.                     *)
(***************************************************************************)

\* the step decides the outcome of call c: it fails, or it is admitted
Decides(c) ==
    /\ pc[c] \in {"validate", "verify", "arbitrate"}
    /\ pc'[c] \in {"returned", "sign"}

\* C3 (as stated): a reissue request naming any input that is in the
\* spend-book fails with DbcAlreadySpent, whatever its other inputs.
C3_RespendIsAlreadySpent ==
    [][\A c \in Calls :
          (Decides(c) /\ req[c].inputs \cap spendbook # {})
              => (pc'[c] = "returned" /\ result'[c] = Err("DbcAlreadySpent"))]_vars

\* C3 (amended): a reissue request naming any input that is in the
\* spend-book never succeeds, whatever its other inputs; it fails with
\* DbcAlreadySpent when it passes the validations of steps 1 to 4, and with
\* the error of the first of those validations that it fails otherwise.
C3_RespendFails ==
    [][\A c \in Calls :
          (Decides(c) /\ req[c].inputs \cap spendbook # {})
              => /\ pc'[c] = "returned"
                 /\ result'[c].tag = "Err"
                 /\ (validation_error(req[c]) = "none"
                     /\ verification_error(req[c]) = "none")
                        => result'[c] = Err("DbcAlreadySpent")
                 /\ validation_error(req[c]) # "none"
                        => result'[c] = Err(validation_error(req[c]))
                 /\ (validation_error(req[c]) = "none"
                     /\ verification_error(req[c]) # "none")
                        => result'[c] = Err(verification_error(req[c]))]_vars

C3_Witness ==
    \E c \in Calls, d \in Calls :
        /\ c # d
        /\ pc[d] = "returned" /\ result[d].tag = "Ok"
        /\ pc[c] = "returned" /\ result[c] = Err("DbcAlreadySpent")
        /\ req[c].inputs \cap req[d].inputs # {}
        /\ req[c].inputs \ spendbook # {}

\* C4: a reissue call that returns an error leaves the spend-book as it
\* was: the step that returns the error does not change the spend-book and
\* the call has written none of its input names.
C4_ErrorLeavesSpendbook ==
    [][\A c \in Calls :
          (pc[c] # "returned" /\ pc'[c] = "returned" /\ result'[c].tag = "Err")
              => (spendbook' = spendbook /\ recorded'[c] = {})]_vars

C4_Witness ==
    \E c \in Calls :
        /\ pc[c] = "returned"
        /\ result[c] = Err("DbcAlreadySpent")
        /\ req[c].inputs \cap spendbook # {}
        /\ req[c].inputs \ spendbook # {}

\* C5: in any interleaving of the reissue calls, no two calls have both
\* recorded the same input name in the spend-book.
C5_NoDoubleRecord ==
    \A c \in Calls, d \in Calls :
        c # d => recorded[c] \cap recorded[d] = {}

C5_Witness ==
    \E c \in Calls, d \in Calls :
        /\ c # d
        /\ pc[c] = "sign"
        /\ pc[d] = "returned" /\ result[d] = Err("DbcAlreadySpent")
        /\ req[d].inputs \cap recorded[c] # {}

(***************************************************************************)
(* Claims about the builders, checked under BuilderSpec.                   *)
(***************************************************************************)

\* the input and output denominations of the TransactionBuilder sum to
\* equal Amounts
sums_are_equal(self) ==
    LET in == inputs_amount_sum(self)
        out == outputs_amount_sum(self)
    IN  in.tag = "Ok" /\ out.tag = "Ok" /\ eq(in.amount, out.amount)

\* C11: TransactionBuilder::build returns Ok only if the inputs are not
\* empty and the input denominations sum to the same amount as the output
\* denominations; when the sums differ it returns Err(AmountMismatch).
C11_BuildChecksConservation ==
    tx_built # NoResult =>
        /\ tx_built.tag = "Ok"
               => (tx_builder.inputs # {} /\ sums_are_equal(tx_builder))
        /\ ~sums_are_equal(tx_builder) => tx_built = Err("AmountMismatch")

\* the conditions on a DbcBuilder under which build may succeed
shares_match_transaction(self) ==
    \A i \in 1..Len(self.reissue_shares) :
        self.reissue_shares[i].dbc_transaction
            = blinded(self.reissue_transaction.v)

shares_cover_outputs(self) ==
    LET envelopes == {k.envelope : k \in self.reissue_transaction.v.outputs}
    IN  \A i \in 1..Len(self.reissue_shares) :
            LET list == self.reissue_shares[i].signed_envelope_shares
            IN  /\ \A e \in envelopes :
                       Cardinality({j \in 1..Len(list) : list[j].envelope = e}) = 1
                /\ \A j \in 1..Len(list) : list[j].envelope \in envelopes

shares_have_one_key_set(self) ==
    \A i, j \in 1..Len(self.reissue_shares) :
        self.reissue_shares[i].public_key_set
            = self.reissue_shares[j].public_key_set

\* the errors that answer the conditions which do not hold
errors_due(self) ==
    (IF shares_match_transaction(self) THEN {}
     ELSE {"ReissueShareDbcTransactionMismatch"})
    \cup (IF shares_cover_outputs(self) THEN {}
          ELSE {"ReissueShareMintNodeSignaturesLenMismatch",
                "ReissueShareMintNodeSignatureNotFoundForInput"})
    \cup (IF shares_have_one_key_set(self) THEN {}
          ELSE {"ReissueSharePublicKeySetMismatch"})

expected_dbc(self, k) ==
    LET pks == self.reissue_shares[1].public_key_set
        child == derive_child(pks, to_be_bytes(k.denomination))
        collected == all_signed_envelope_shares(self.reissue_shares, 1)
    IN  [content |-> self.outputs_content[k],
         mint_public_key |-> public_key(child),
         mint_signature |->
             [under |-> child,
              shares |-> {signature_share_for_envelope_with_index(collected[i])
                            : i \in {j \in 1..Len(collected) :
                                        collected[j].envelope = k.envelope}}]]

\* C13: if DbcBuilder::build returns Ok(dbcs), dbcs holds exactly one Dbc
\* for each output envelope of the transaction: its content is the one
\* mapped to the envelope, its key the child of the shares' key set for the
\* output's denomination, its signature the combination of all the shares
\* returned for the envelope.
C13_OneDbcPerOutput ==
    dbc_built.tag = "Ok" =>
        LET rt == dbc_builder.reissue_transaction.v
            dbcs == dbc_built.dbcs
        IN  /\ Len(dbcs) = Cardinality(rt.outputs)
            /\ \A k \in rt.outputs :
                   /\ k \in DOMAIN dbc_builder.outputs_content
                   /\ \E i \in 1..Len(dbcs) : dbcs[i] = expected_dbc(dbc_builder, k)

\* the Vec is in ascending order of name
sorted_by_name(dbcs) ==
    \A i, j \in 1..Len(dbcs) : i < j => name(dbcs[i]) <= name(dbcs[j])

\* build returns the same for every order of the reissue shares and every
\* order in which outputs_content yields its entries
build_ignores_order(self, built) ==
    \A order \in Orders(DOMAIN self.outputs_content) :
        \A perm \in Orders(1..Len(self.reissue_shares)) :
            DbcBuilder_build(
                [self EXCEPT !.reissue_shares =
                    [i \in 1..Len(perm) |-> self.reissue_shares[perm[i]]]],
                order) = built

\* the contents added to the builder have different names
names_are_distinct(self) ==
    \A k, l \in DOMAIN self.outputs_content :
        k # l => content_hash(self.outputs_content[k])
                     # content_hash(self.outputs_content[l])

C19_BuildIsTotal ==
    dbc_built # NoResult => dbc_built.tag \in {"Ok", "Err"}

====
